---- MODULE Spec2Model ----
(***************************************************************************)
(* ICameraService binder interface (camera/ICameraService.cpp).           *)
(*                                                                         *)
(* BpCameraService is the client-side proxy: each method writes a call     *)
(* parcel, makes one blocking transact() and decodes the reply parcel.     *)
(* BnCameraService::onTransact is the service-side stub: it switches on    *)
(* the transaction code, checks the interface token, reads the arguments,  *)
(* calls the local implementation and writes the reply parcel.             *)
(*                                                                         *)
(* A parcel is a sequence of typed fields [t |-> type, v |-> integer].     *)
(* Text and object values are integers: a String16 is the number of the    *)
(* text, an interface object n (n >= 1, 0 is NULL) has the binder 2n.      *)
(***************************************************************************)
EXTENDS Integers, Sequences, FiniteSets, TLC

(* ---------------- bounds of the model ---------------- *)

\* camera ids passed by callers are 0..MaxCameraId
MaxCameraId == 1
\* raw transaction codes a foreign client may send are 0..MaxCode
MaxCode == 8
\* the rejected calls the stub has seen are counted up to MaxRejects
MaxRejects == 2

(* ---------------- program constants ---------------- *)

\* enum at ICameraService.cpp:41-48
EX_SECURITY == -1
EX_BAD_PARCELABLE == -2
EX_ILLEGAL_ARGUMENT == -3
EX_NULL_POINTER == -4
EX_ILLEGAL_STATE == -5
EX_HAS_REPLY_HEADER == -128

\* errno value behind the -EPROTO the proxy returns
EPROTO == 71

\* transaction codes, in the order of the operation table
\* (IBinder::FIRST_CALL_TRANSACTION onwards)
GET_NUMBER_OF_CAMERAS == 1
GET_CAMERA_INFO == 2
CONNECT == 3
CONNECT_PRO == 4
CONNECT_DEVICE == 5
ADD_LISTENER == 6
REMOVE_LISTENER == 7

\* the interface descriptor, "android.hardware.ICameraService", as text number
DESCRIPTOR == 1

\* worker threads of the transport; each carries one call at a time
Threads == {"t1", "t2"}

(* ---------------- value domains ---------------- *)

CameraIds == 0..MaxCameraId
\* callback and listener objects the callers hold (never NULL: a caller
\* builds its callback object before it calls)
Callbacks == {1, 2}
PackageNames == {1}
Uids == {1000}
\* interface tokens a foreign client may put first in its envelope
Tokens == {DESCRIPTOR, DESCRIPTOR + 1}

\* values the local implementation may return
Counts == {0, 2}
Statuses == {0, -22}
Facings == {0, 1}
Orientations == {0, 90}
\* camera objects connect() may return; 0 is NULL (connection refused)
Cameras == {0, 3}

InfoVals == [facing : Facings, orientation : Orientations]
ZeroInfo == [facing |-> 0, orientation |-> 0]
\* what the caller's CameraInfo holds before the call
CallerInfos == {[facing |-> 1, orientation |-> 90], ZeroInfo}

\* exception codes Parcel::readExceptionCode may hand to the proxy: the
\* five well-known ones and two others. EX_HAS_REPLY_HEADER is consumed
\* inside the Parcel ("Binder should be handling this code inside
\* Parcel::readException") and is not among them.
ExCodes == {EX_SECURITY, EX_BAD_PARCELABLE, EX_ILLEGAL_ARGUMENT,
            EX_NULL_POINTER, EX_ILLEGAL_STATE, -9, 7}

(* ---------------- parcels ---------------- *)

Field(ty, val) == [t |-> ty, v |-> val]

\* Parcel::read*: the field at position i when it is there and has the type
\* read, else the parcel's default (0 / NULL): a read past the end of the
\* data yields 0
ReadVal(p, i, ty) ==
    IF i <= Len(p) /\ p[i].t = ty THEN p[i].v ELSE 0

\* IInterface::asBinder on a non-NULL interface object
asBinder(obj) == 2 * obj

\* interface_cast<T>(binder): NULL stays NULL, else the interface of the binder
interface_cast(b) == IF b = 0 THEN 0 ELSE b \div 2

Ops == {"getNumberOfCameras", "getCameraInfo", "connect", "connectPro",
        "connectDevice", "addListener", "removeListener"}

ConnectOps == {"connect", "connectPro", "connectDevice"}
ListenerOps == {"addListener", "removeListener"}

(* ---------------- BpCameraService: the proxy ---------------- *)

\* a plausible slip: removeListener, copied from addListener, still
\* transacts ADD_LISTENER
ProxyOpcodeCopied(op) ==
    CASE op = "getNumberOfCameras" -> GET_NUMBER_OF_CAMERAS
      [] op = "getCameraInfo" -> GET_CAMERA_INFO
      [] op = "connect" -> CONNECT
      [] op = "connectPro" -> CONNECT_PRO
      [] op = "connectDevice" -> CONNECT_DEVICE
      [] op = "addListener" -> ADD_LISTENER
      [] op = "removeListener" -> ADD_LISTENER

\* the transaction code each proxy method hands to transact()
ProxyOpcode(op) ==
    CASE op = "getNumberOfCameras" -> GET_NUMBER_OF_CAMERAS
      [] op = "getCameraInfo" -> GET_CAMERA_INFO
      [] op = "connect" -> CONNECT
      [] op = "connectPro" -> CONNECT_PRO
      [] op = "connectDevice" -> CONNECT_DEVICE
      [] op = "addListener" -> ADD_LISTENER
      [] op = "removeListener" -> REMOVE_LISTENER

\* the argument tuples a caller may pass to each proxy method
ArgTuples(op) ==
    CASE op = "getNumberOfCameras" -> {<<>>}
      [] op = "getCameraInfo" -> {<<id>> : id \in CameraIds}
      [] op \in ConnectOps ->
            {<<cb, id, pkg, uid>> : cb \in Callbacks, id \in CameraIds,
                                    pkg \in PackageNames, uid \in Uids}
      [] op \in ListenerOps -> {<<l>> : l \in Callbacks}

\* the fields each proxy method writes after the interface token
ProxyArgFields(op, a) ==
    CASE op = "getNumberOfCameras" -> <<>>
      [] op = "getCameraInfo" -> <<Field("i32", a[1])>>
      [] op \in ConnectOps ->
            <<Field("binder", asBinder(a[1])), Field("i32", a[2]),
              Field("str", a[3]), Field("i32", a[4])>>
      [] op \in ListenerOps -> <<Field("binder", asBinder(a[1]))>>

\* the call parcel: writeInterfaceToken, then the arguments
ProxyEnvelope(op, a) ==
    <<Field("token", DESCRIPTOR)>> \o ProxyArgFields(op, a)

\* the text readExceptionCode logs for a non-zero code
ExceptionName(c) ==
    CASE c = EX_SECURITY -> "Security"
      [] c = EX_BAD_PARCELABLE -> "BadParcelable"
      [] c = EX_NULL_POINTER -> "NullPointer"
      [] c = EX_ILLEGAL_STATE -> "IllegalState"
      [] c = EX_HAS_REPLY_HEADER -> "HasReplyHeader"
      [] OTHER -> "Unknown"

\* a plausible slip: only the codes the switch names count as failures
readExceptionCodeNamedOnly(p) ==
    ExceptionName(ReadVal(p, 1, "exc")) # "Unknown"

\* static bool readExceptionCode(Parcel& reply): TRUE when the first reply
\* field, the exception code, is not 0
readExceptionCode(p) ==
    ReadVal(p, 1, "exc") # 0

\* a plausible slip: the count reports a refused call as -1
FailureValueNegativeCount(op) ==
    CASE op = "getNumberOfCameras" -> 0 - 1
      [] op \in ConnectOps -> 0
      [] OTHER -> 0 - EPROTO

\* the value each proxy method returns when readExceptionCode is true
FailureValue(op) ==
    CASE op = "getNumberOfCameras" -> 0
      [] op \in ConnectOps -> 0
      [] OTHER -> 0 - EPROTO

\* a plausible slip: facing and orientation read in the other order
DecodeCameraInfoSwapped(p, info) ==
    IF ReadVal(p, 3, "i32") # 0
    THEN [info |-> [facing |-> ReadVal(p, 5, "i32"),
                    orientation |-> ReadVal(p, 4, "i32")],
          reads |-> <<"i32", "i32", "i32">>]
    ELSE [info |-> info, reads |-> <<"i32">>]

\* a plausible slip: the presence marker is read but not tested
DecodeCameraInfoAlways(p, info) ==
    [info |-> [facing |-> ReadVal(p, 4, "i32"),
               orientation |-> ReadVal(p, 5, "i32")],
     reads |-> <<"i32", "i32", "i32">>]

\* getCameraInfo after the status: the presence marker, and facing and
\* orientation only when it is not 0
DecodeCameraInfo(p, info) ==
    IF ReadVal(p, 3, "i32") # 0
    THEN [info |-> [facing |-> ReadVal(p, 4, "i32"),
                    orientation |-> ReadVal(p, 5, "i32")],
          reads |-> <<"i32", "i32", "i32">>]
    ELSE [info |-> info, reads |-> <<"i32">>]

\* what a proxy method does with the reply parcel p: the value it returns,
\* the caller's CameraInfo afterwards and the types of the fields it read
ProxyDecode(op, p, info) ==
    IF readExceptionCode(p)
    THEN [ret |-> FailureValue(op), info |-> info, reads |-> <<"exc">>]
    ELSE CASE op = "getCameraInfo" ->
                LET d == DecodeCameraInfo(p, info)
                IN  [ret |-> ReadVal(p, 2, "i32"), info |-> d.info,
                     reads |-> <<"exc", "i32">> \o d.reads]
           [] op \in ConnectOps ->
                [ret |-> interface_cast(ReadVal(p, 2, "binder")),
                 info |-> info, reads |-> <<"exc", "binder">>]
           [] OTHER ->
                [ret |-> ReadVal(p, 2, "i32"), info |-> info,
                 reads |-> <<"exc", "i32">>]

(* ---------------- BnCameraService::onTransact: the stub ---------------- *)

RecognizedCodes == {GET_NUMBER_OF_CAMERAS, GET_CAMERA_INFO, CONNECT,
                    CONNECT_PRO, CONNECT_DEVICE, ADD_LISTENER,
                    REMOVE_LISTENER}
ConnectCodes == {CONNECT, CONNECT_PRO, CONNECT_DEVICE}
ListenerCodes == {ADD_LISTENER, REMOVE_LISTENER}

\* a plausible slip: the arguments are read before CHECK_INTERFACE
ProgramArgsFirst(c) ==
    CASE c = GET_NUMBER_OF_CAMERAS -> <<"check", "exc", "impl", "res">>
      [] c = GET_CAMERA_INFO -> <<"args", "check", "impl", "exc", "res">>
      [] c \in ConnectCodes -> <<"args", "check", "impl", "exc", "res">>
      [] c \in ListenerCodes -> <<"args", "check", "exc", "impl", "res">>
      [] OTHER -> <<"default">>

\* a plausible slip: the first case forgets reply->writeNoException()
ProgramNoExc(c) ==
    CASE c = GET_NUMBER_OF_CAMERAS -> <<"check", "impl", "res">>
      [] c = GET_CAMERA_INFO -> <<"check", "args", "impl", "exc", "res">>
      [] c \in ConnectCodes -> <<"check", "args", "impl", "exc", "res">>
      [] c \in ListenerCodes -> <<"check", "args", "exc", "impl", "res">>
      [] OTHER -> <<"default">>

\* the statements of each case of the switch, in source order:
\*   check   CHECK_INTERFACE
\*   args    the data.read* calls
\*   impl    the call of the local implementation
\*   exc     reply->writeNoException()
\*   res     the reply->write* of the results, and return NO_ERROR
\*   default BBinder::onTransact
Program(c) ==
    CASE c = GET_NUMBER_OF_CAMERAS -> <<"check", "exc", "impl", "res">>
      [] c = GET_CAMERA_INFO -> <<"check", "args", "impl", "exc", "res">>
      [] c \in ConnectCodes -> <<"check", "args", "impl", "exc", "res">>
      [] c \in ListenerCodes -> <<"check", "args", "exc", "impl", "res">>
      [] OTHER -> <<"default">>

\* a plausible slip: the token is read but every token is accepted
checkInterfaceAny(d) ==
    Len(d) >= 1

\* CHECK_INTERFACE: data.checkInterface(this) reads the leading token and
\* compares it with the interface descriptor
checkInterface(d) ==
    ReadVal(d, 1, "token") = DESCRIPTOR

\* the types of the argument fields each case reads, in order
StubArgTypes(c) ==
    CASE c = GET_CAMERA_INFO -> <<"i32">>
      [] c \in ConnectCodes -> <<"binder", "i32", "str", "i32">>
      [] c \in ListenerCodes -> <<"binder">>
      [] OTHER -> <<>>

\* the argument values each case hands to the implementation: the fields
\* after the token, binders through interface_cast
StubDecodeArgs(c, d) ==
    [i \in 1..Len(StubArgTypes(c)) |->
        LET ty == StubArgTypes(c)[i]
            val == ReadVal(d, i + 1, ty)
        IN  IF ty = "binder" THEN interface_cast(val) ELSE val]

\* a plausible slip: the REMOVE_LISTENER case, copied from ADD_LISTENER,
\* still calls addListener
StubMethodCopied(c) ==
    CASE c = GET_NUMBER_OF_CAMERAS -> "getNumberOfCameras"
      [] c = GET_CAMERA_INFO -> "getCameraInfo"
      [] c = CONNECT -> "connect"
      [] c = CONNECT_PRO -> "connectPro"
      [] c = CONNECT_DEVICE -> "connectDevice"
      [] c = ADD_LISTENER -> "addListener"
      [] c = REMOVE_LISTENER -> "addListener"

\* the implementation method each case calls
StubMethod(c) ==
    CASE c = GET_NUMBER_OF_CAMERAS -> "getNumberOfCameras"
      [] c = GET_CAMERA_INFO -> "getCameraInfo"
      [] c = CONNECT -> "connect"
      [] c = CONNECT_PRO -> "connectPro"
      [] c = CONNECT_DEVICE -> "connectDevice"
      [] c = ADD_LISTENER -> "addListener"
      [] c = REMOVE_LISTENER -> "removeListener"

\* what the (pure virtual) implementation method may return: its value r and
\* the CameraInfo record it was handed, as it leaves it (zeroed by the stub
\* before the call)
ImplReturns(c) ==
    CASE c = GET_NUMBER_OF_CAMERAS -> [r : Counts, info : {ZeroInfo}]
      [] c = GET_CAMERA_INFO -> [r : Statuses, info : InfoVals]
      [] c \in ConnectCodes -> [r : Cameras, info : {ZeroInfo}]
      [] c \in ListenerCodes -> [r : Statuses, info : {ZeroInfo}]

\* a plausible slip: the presence marker follows the status (0 on failure)
StubResultFieldsPresenceByStatus(c, ret) ==
    CASE c = GET_CAMERA_INFO ->
            <<Field("i32", ret.r)>> \o
            (IF ret.r = 0
             THEN <<Field("i32", 1), Field("i32", ret.info.facing),
                    Field("i32", ret.info.orientation)>>
             ELSE <<Field("i32", 0)>>)
      [] c \in ConnectCodes -> <<Field("binder", asBinder(ret.r))>>
      [] OTHER -> <<Field("i32", ret.r)>>

\* the result fields each case writes after writeNoException
StubResultFields(c, ret) ==
    CASE c = GET_CAMERA_INFO ->
            <<Field("i32", ret.r), Field("i32", 1),
              Field("i32", ret.info.facing),
              Field("i32", ret.info.orientation)>>
      [] c \in ConnectCodes -> <<Field("binder", asBinder(ret.r))>>
      [] OTHER -> <<Field("i32", ret.r)>>

\* camera->asBinder() is called through a NULL sp<> when connect() returned
\* NULL: undefined behaviour, the call may yield a NULL binder or fault
NullDeref(c, ret) ==
    c \in ConnectCodes /\ ret.r = 0

(* ---------------- the listener registry of the service ---------------- *)

\* the identities held in a registry
Members(reg) == {reg[i] : i \in 1..Len(reg)}

\* addListener under the registry's lock: a listener already registered is
\* not entered again
RegistryAdd(reg, l) ==
    IF l \in Members(reg) THEN reg ELSE Append(reg, l)

\* removeListener under the registry's lock: the entry is erased and its
\* reference released; removing a listener not registered changes nothing
RegistryRemove(reg, l) ==
    SelectSeq(reg, LAMBDA x : x # l)

\* the registry after the implementation method m, called with arguments
\* a, returned ret; a call the implementation fails leaves it alone
RegistryAfter(m, a, ret, reg) ==
    IF ret.r # 0 THEN reg
    ELSE IF m = "addListener" THEN RegistryAdd(reg, a[1])
    ELSE IF m = "removeListener" THEN RegistryRemove(reg, a[1])
    ELSE reg

(* ---------------- state ---------------- *)

VARIABLES
    pc,         \* where each thread's call is: idle, sent, stub, returned,
                \* fault, decode, done
    origin,     \* who made the call: "proxy" (BpCameraService) or "raw"
    call,       \* the caller's request: method, arguments, its CameraInfo
    code,       \* the transaction code handed to transact / onTransact
    data,       \* the call parcel
    ip,         \* the stub's position in Program(code)
    tokenOk,    \* the outcome of CHECK_INTERFACE, "none" before it ran
    dreads,     \* the types of the data fields the stub has read
    sargs,      \* the argument values the stub decoded
    implCalls,  \* the implementation calls the stub made: method, arguments
    implRet,    \* what the implementation returned
    reply,      \* the reply parcel the stub writes
    status,     \* the status onTransact returned
    preply,     \* the reply parcel the proxy's transact() came back with
    tstatus,    \* the status transact() returned to the proxy
    result,     \* what the proxy method returned: ret, info, reads
    logged,     \* the error text readExceptionCode logged, "none" if none
    registry,   \* the service's listener list, in order of registration
    expect,     \* the listeners the accepted add/remove calls, taken from
                \* the callers' parcels, leave registered
    rejects     \* how many calls the stub has rejected so far

vars == <<pc, origin, call, code, data, ip, tokenOk, dreads, sargs,
          implCalls, implRet, reply, status, preply, tstatus, result,
          logged, registry, expect, rejects>>

stubVars == <<ip, tokenOk, dreads, sargs, implCalls, implRet, reply, status>>
proxyVars == <<preply, tstatus, result, logged>>
svcVars == <<registry, expect, rejects>>
callVars == <<origin, call, code, data>>

NoCall == [op |-> "none", args |-> <<>>, info |-> ZeroInfo]
NoRet == [r |-> 0, info |-> ZeroInfo]
NoResult == [ret |-> 0, info |-> ZeroInfo, reads |-> <<>>]

Init ==
    /\ pc = [t \in Threads |-> "idle"]
    /\ origin = [t \in Threads |-> "none"]
    /\ call = [t \in Threads |-> NoCall]
    /\ code = [t \in Threads |-> 0]
    /\ data = [t \in Threads |-> <<>>]
    /\ ip = [t \in Threads |-> 0]
    /\ tokenOk = [t \in Threads |-> "none"]
    /\ dreads = [t \in Threads |-> <<>>]
    /\ sargs = [t \in Threads |-> <<>>]
    /\ implCalls = [t \in Threads |-> <<>>]
    /\ implRet = [t \in Threads |-> NoRet]
    /\ reply = [t \in Threads |-> <<>>]
    /\ status = [t \in Threads |-> "none"]
    /\ preply = [t \in Threads |-> <<>>]
    /\ tstatus = [t \in Threads |-> "none"]
    /\ result = [t \in Threads |-> NoResult]
    /\ logged = [t \in Threads |-> "none"]
    /\ registry = <<>>
    /\ expect = {}
    /\ rejects = 0

\* no other thread has a call in flight
Alone(t) == \A u \in Threads \ {t} : pc[u] = "idle"

(* ---------------- the callers ---------------- *)

\* a BpCameraService method up to and including its transact() call
ProxyCall(t) ==
    /\ pc[t] = "idle"
    /\ \E op \in Ops : \E a \in ArgTuples(op) : \E info \in CallerInfos :
          /\ call' = [call EXCEPT ![t] = [op |-> op, args |-> a, info |-> info]]
          /\ code' = [code EXCEPT ![t] = ProxyOpcode(op)]
          /\ data' = [data EXCEPT ![t] = ProxyEnvelope(op, a)]
    /\ origin' = [origin EXCEPT ![t] = "proxy"]
    /\ pc' = [pc EXCEPT ![t] = "sent"]
    /\ UNCHANGED <<stubVars, proxyVars, svcVars>>

\* the argument fields a foreign client sends with transaction code c
RawBodies(c) ==
    IF c \in RecognizedCodes
    THEN {ProxyArgFields(StubMethod(c), a) : a \in ArgTuples(StubMethod(c))}
    ELSE {<<>>, <<Field("i32", 0)>>}

\* a client that is not BpCameraService transacts on the binder: any code,
\* any interface token
RawTransact(t) ==
    /\ pc[t] = "idle"
    /\ \E c \in 0..MaxCode : \E tok \in Tokens : \E body \in RawBodies(c) :
          /\ code' = [code EXCEPT ![t] = c]
          /\ data' = [data EXCEPT ![t] = <<Field("token", tok)>> \o body]
    /\ call' = [call EXCEPT ![t] = [op |-> "raw", args |-> <<>>, info |-> ZeroInfo]]
    /\ origin' = [origin EXCEPT ![t] = "raw"]
    /\ pc' = [pc EXCEPT ![t] = "sent"]
    /\ UNCHANGED <<stubVars, proxyVars, svcVars>>

(* ---------------- the transport ---------------- *)

\* the transport hands the call to BnCameraService::onTransact
Deliver(t) ==
    /\ pc[t] = "sent"
    /\ pc' = [pc EXCEPT ![t] = "stub"]
    /\ ip' = [ip EXCEPT ![t] = 1]
    /\ UNCHANGED <<callVars, tokenOk, dreads, sargs, implCalls, implRet,
                   reply, status, proxyVars, svcVars>>

\* the replies a remote service other than this stub may send to method op:
\* an exception code followed by its message, or for getCameraInfo a reply
\* without the CameraInfo (presence 0), with or without trailing data
RemoteReplies(op) ==
    {<<Field("exc", c), Field("str", 1)>> : c \in ExCodes}
    \cup (IF op = "getCameraInfo"
          THEN {<<Field("exc", 0), Field("i32", s), Field("i32", 0)>> \o junk :
                    s \in Statuses,
                    junk \in {<<>>, <<Field("i32", 1), Field("i32", 90)>>}}
          ELSE {})

\* transact() comes back with a reply that another implementation of the
\* service wrote
RemoteReply(t) ==
    /\ pc[t] = "sent"
    /\ origin[t] = "proxy"
    /\ \E r \in RemoteReplies(call[t].op) :
          preply' = [preply EXCEPT ![t] = r]
    /\ tstatus' = [tstatus EXCEPT ![t] = "NO_ERROR"]
    /\ pc' = [pc EXCEPT ![t] = "decode"]
    /\ UNCHANGED <<callVars, stubVars, result, logged, svcVars>>

\* the remote process is unreachable or died during the call: transact()
\* returns DEAD_OBJECT and the reply parcel holds no data
TransportFail(t) ==
    /\ pc[t] \in {"sent", "fault"}
    /\ origin[t] = "proxy"
    /\ preply' = [preply EXCEPT ![t] = <<>>]
    /\ tstatus' = [tstatus EXCEPT ![t] = "DEAD_OBJECT"]
    /\ pc' = [pc EXCEPT ![t] = "decode"]
    /\ UNCHANGED <<callVars, stubVars, result, logged, svcVars>>

\* onTransact returned: the reply parcel travels back when the status is
\* NO_ERROR, else only the status does
TransportReturn(t) ==
    /\ pc[t] = "returned"
    /\ origin[t] = "proxy"
    /\ preply' = [preply EXCEPT ![t] =
                    IF status[t] = "NO_ERROR" THEN reply[t] ELSE <<>>]
    /\ tstatus' = [tstatus EXCEPT ![t] = status[t]]
    /\ pc' = [pc EXCEPT ![t] = "decode"]
    /\ UNCHANGED <<callVars, stubVars, result, logged, svcVars>>

(* ---------------- onTransact, statement by statement ---------------- *)

Stmt(t) == IF pc[t] = "stub" THEN Program(code[t])[ip[t]] ELSE "none"

\* one more rejected call, counted up to MaxRejects
CountReject(n) == IF n < MaxRejects THEN n + 1 ELSE n

\* a plausible slip: the stub latches a rejection and refuses every call
\* after the first one it rejected
StubCheckInterfaceLatched(t) ==
    /\ Stmt(t) = "check"
    /\ dreads' = [dreads EXCEPT ![t] = Append(@, "token")]
    /\ IF checkInterface(data[t]) /\ rejects = 0
       THEN /\ tokenOk' = [tokenOk EXCEPT ![t] = "yes"]
            /\ ip' = [ip EXCEPT ![t] = @ + 1]
            /\ UNCHANGED <<pc, status, rejects>>
       ELSE /\ tokenOk' = [tokenOk EXCEPT ![t] = "no"]
            /\ status' = [status EXCEPT ![t] = "PERMISSION_DENIED"]
            /\ pc' = [pc EXCEPT ![t] = "returned"]
            /\ rejects' = CountReject(rejects)
            /\ UNCHANGED ip
    /\ UNCHANGED <<callVars, sargs, implCalls, implRet, reply, proxyVars,
                   registry, expect>>

\* CHECK_INTERFACE(ICameraService, data, reply): on a mismatch onTransact
\* returns PERMISSION_DENIED at once, the reply parcel untouched
StubCheckInterface(t) ==
    /\ Stmt(t) = "check"
    /\ dreads' = [dreads EXCEPT ![t] = Append(@, "token")]
    /\ IF checkInterface(data[t])
       THEN /\ tokenOk' = [tokenOk EXCEPT ![t] = "yes"]
            /\ ip' = [ip EXCEPT ![t] = @ + 1]
            /\ UNCHANGED <<pc, status>>
       ELSE /\ tokenOk' = [tokenOk EXCEPT ![t] = "no"]
            /\ status' = [status EXCEPT ![t] = "PERMISSION_DENIED"]
            /\ pc' = [pc EXCEPT ![t] = "returned"]
            /\ UNCHANGED ip
    /\ rejects' = IF checkInterface(data[t]) THEN rejects ELSE CountReject(rejects)
    /\ UNCHANGED <<callVars, sargs, implCalls, implRet, reply, proxyVars,
                   registry, expect>>

\* a plausible slip: the decoded arguments are kept in statics that all
\* worker threads share
StubReadArgsShared(t) ==
    /\ Stmt(t) = "args"
    /\ dreads' = [dreads EXCEPT ![t] = @ \o StubArgTypes(code[t])]
    /\ sargs' = [u \in Threads |-> StubDecodeArgs(code[t], data[t])]
    /\ ip' = [ip EXCEPT ![t] = @ + 1]
    /\ UNCHANGED <<pc, callVars, tokenOk, implCalls, implRet, reply, status,
                   proxyVars, svcVars>>

\* the data.read* calls of the case
StubReadArgs(t) ==
    /\ Stmt(t) = "args"
    /\ dreads' = [dreads EXCEPT ![t] = @ \o StubArgTypes(code[t])]
    /\ sargs' = [sargs EXCEPT ![t] = StubDecodeArgs(code[t], data[t])]
    /\ ip' = [ip EXCEPT ![t] = @ + 1]
    /\ UNCHANGED <<pc, callVars, tokenOk, implCalls, implRet, reply, status,
                   proxyVars, svcVars>>

\* reply->writeNoException()
StubWriteNoException(t) ==
    /\ Stmt(t) = "exc"
    /\ reply' = [reply EXCEPT ![t] = Append(@, Field("exc", 0))]
    /\ ip' = [ip EXCEPT ![t] = @ + 1]
    /\ UNCHANGED <<pc, callVars, tokenOk, dreads, sargs, implCalls, implRet,
                   status, proxyVars, svcVars>>

\* the listeners that should be registered after the call with parcel d
\* was accepted: the listener is the interface of the binder the caller
\* wrote after the token
ExpectAfter(c, d, ret, exp) ==
    IF ret.r # 0 THEN exp
    ELSE IF c = ADD_LISTENER THEN exp \cup {d[2].v \div 2}
    ELSE IF c = REMOVE_LISTENER THEN exp \ {d[2].v \div 2}
    ELSE exp

\* the call of the local implementation method, which returns any value of
\* its range; addListener and removeListener change the registry
StubCallImpl(t) ==
    /\ Stmt(t) = "impl"
    /\ implCalls' = [implCalls EXCEPT ![t] =
                        Append(@, [m |-> StubMethod(code[t]), a |-> sargs[t]])]
    /\ \E ret \in ImplReturns(code[t]) :
          /\ implRet' = [implRet EXCEPT ![t] = ret]
          /\ registry' = RegistryAfter(StubMethod(code[t]), sargs[t], ret,
                                      registry)
          /\ expect' = ExpectAfter(code[t], data[t], ret, expect)
    /\ ip' = [ip EXCEPT ![t] = @ + 1]
    /\ UNCHANGED <<pc, callVars, tokenOk, dreads, sargs, reply, status,
                   proxyVars, rejects>>

\* the reply->write* calls of the results, then return NO_ERROR
StubWriteResult(t) ==
    /\ Stmt(t) = "res"
    /\ reply' = [reply EXCEPT ![t] = @ \o StubResultFields(code[t], implRet[t])]
    /\ status' = [status EXCEPT ![t] = "NO_ERROR"]
    /\ pc' = [pc EXCEPT ![t] = "returned"]
    /\ UNCHANGED <<callVars, ip, tokenOk, dreads, sargs, implCalls, implRet,
                   proxyVars, svcVars>>

\* the other outcome of camera->asBinder() through a NULL sp<>: the thread
\* faults before anything more is written
StubFault(t) ==
    /\ Stmt(t) = "res"
    /\ NullDeref(code[t], implRet[t])
    /\ pc' = [pc EXCEPT ![t] = "fault"]
    /\ UNCHANGED <<callVars, stubVars, proxyVars, svcVars>>

\* a plausible slip: the default case reports success
DefaultStatusOk(c) == "NO_ERROR"

\* default: return BBinder::onTransact(code, data, reply, flags), which
\* knows none of the codes 0..MaxCode and returns UNKNOWN_TRANSACTION
DefaultStatus(c) == "UNKNOWN_TRANSACTION"

StubDefault(t) ==
    /\ Stmt(t) = "default"
    /\ status' = [status EXCEPT ![t] = DefaultStatus(code[t])]
    /\ pc' = [pc EXCEPT ![t] = "returned"]
    /\ rejects' = CountReject(rejects)
    /\ UNCHANGED <<callVars, ip, tokenOk, dreads, sargs, implCalls, implRet,
                   reply, proxyVars, registry, expect>>

(* ---------------- the proxy after transact() ---------------- *)

\* the rest of the BpCameraService method: readExceptionCode, the result
\* reads, return. The status transact() returned is not looked at.
ProxyReturn(t) ==
    /\ pc[t] = "decode"
    /\ result' = [result EXCEPT ![t] =
                    ProxyDecode(call[t].op, preply[t], call[t].info)]
    /\ logged' = [logged EXCEPT ![t] =
                    IF readExceptionCode(preply[t])
                    THEN ExceptionName(ReadVal(preply[t], 1, "exc"))
                    ELSE "none"]
    /\ pc' = [pc EXCEPT ![t] = "done"]
    /\ UNCHANGED <<callVars, stubVars, preply, tstatus, svcVars>>

\* the call is over: its parcels and locals go out of scope
Finish(t) ==
    /\ \/ pc[t] = "done"
       \/ origin[t] = "raw" /\ pc[t] \in {"returned", "fault"}
    /\ pc' = [pc EXCEPT ![t] = "idle"]
    /\ origin' = [origin EXCEPT ![t] = "none"]
    /\ call' = [call EXCEPT ![t] = NoCall]
    /\ code' = [code EXCEPT ![t] = 0]
    /\ data' = [data EXCEPT ![t] = <<>>]
    /\ ip' = [ip EXCEPT ![t] = 0]
    /\ tokenOk' = [tokenOk EXCEPT ![t] = "none"]
    /\ dreads' = [dreads EXCEPT ![t] = <<>>]
    /\ sargs' = [sargs EXCEPT ![t] = <<>>]
    /\ implCalls' = [implCalls EXCEPT ![t] = <<>>]
    /\ implRet' = [implRet EXCEPT ![t] = NoRet]
    /\ reply' = [reply EXCEPT ![t] = <<>>]
    /\ status' = [status EXCEPT ![t] = "none"]
    /\ preply' = [preply EXCEPT ![t] = <<>>]
    /\ tstatus' = [tstatus EXCEPT ![t] = "none"]
    /\ result' = [result EXCEPT ![t] = NoResult]
    /\ logged' = [logged EXCEPT ![t] = "none"]
    /\ UNCHANGED svcVars

(* ---------------- specification: one call at a time ---------------- *)

Next ==
    \/ \E t \in Threads : Alone(t) /\ ProxyCall(t)
    \/ \E t \in Threads : Alone(t) /\ RawTransact(t)
    \/ \E t \in Threads : Deliver(t)
    \/ \E t \in Threads : RemoteReply(t)
    \/ \E t \in Threads : TransportFail(t)
    \/ \E t \in Threads : TransportReturn(t)
    \/ \E t \in Threads : StubCheckInterface(t)
    \/ \E t \in Threads : StubReadArgs(t)
    \/ \E t \in Threads : StubWriteNoException(t)
    \/ \E t \in Threads : StubCallImpl(t)
    \/ \E t \in Threads : StubWriteResult(t)
    \/ \E t \in Threads : StubFault(t)
    \/ \E t \in Threads : StubDefault(t)
    \/ \E t \in Threads : ProxyReturn(t)
    \/ \E t \in Threads : Finish(t)

Spec == Init /\ [][Next]_vars

(* ------- specification: calls dispatched on the worker threads at once ------- *)

\* the transport delivers calls of several remote callers to one stub on
\* independent worker threads; the steps of their onTransact calls interleave
\* the codes of the concurrent calls: one of each shape of case (the three
\* connect cases are alike) and one unrecognized code
ConcCodes == {GET_NUMBER_OF_CAMERAS, GET_CAMERA_INFO, CONNECT, ADD_LISTENER,
              REMOVE_LISTENER, MaxCode}

\* a remote caller's call with one of these codes arrives
ConcTransact(t) ==
    /\ RawTransact(t)
    /\ code'[t] \in ConcCodes

NextConc ==
    \/ \E t \in Threads : ConcTransact(t)
    \/ \E t \in Threads : Deliver(t)
    \/ \E t \in Threads : StubCheckInterface(t)
    \/ \E t \in Threads : StubReadArgs(t)
    \/ \E t \in Threads : StubWriteNoException(t)
    \/ \E t \in Threads : StubCallImpl(t)
    \/ \E t \in Threads : StubWriteResult(t)
    \/ \E t \in Threads : StubFault(t)
    \/ \E t \in Threads : StubDefault(t)
    \/ \E t \in Threads : Finish(t)

SpecConc == Init /\ [][NextConc]_vars

(* ---------------- helpers of the properties ---------------- *)

\* the types of the fields of a parcel, in order
Types(p) == [i \in 1..Len(p) |-> p[i].t]

\* the parcel holds exactly one exception code and it is the first field
OneOutcomeFirst(p) ==
    /\ Len(p) >= 1
    /\ p[1].t = "exc"
    /\ \A i \in 2..Len(p) : p[i].t # "exc"

\* the result fields of the operation table, by transaction code
TableResultTypes(c) ==
    CASE c = GET_NUMBER_OF_CAMERAS -> <<"i32">>
      [] c = GET_CAMERA_INFO -> <<"i32", "i32", "i32", "i32">>
      [] c \in ConnectCodes -> <<"binder">>
      [] c \in ListenerCodes -> <<"i32">>

\* the stub is done with the call of thread t: it returned or it faulted
StubOver(t) == pc[t] \in {"returned", "fault", "decode", "done"} /\ ip[t] > 0

(* ---------------- C1 ---------------- *)

\* C1: whenever a proxy method has returned on a reply whose first field is
\* a non-zero exception code (Security, BadPayload, IllegalArgument,
\* NullReference, IllegalState or any other code), it returned the method's
\* failure value (0 for the count, NULL for the connects, -EPROTO for
\* getCameraInfo, addListener and removeListener), read the exception code
\* and no other reply field, and left the caller's CameraInfo alone.
C1_ExceptionShortCircuit ==
    \A t \in Threads :
        (/\ pc[t] = "done"
         /\ Len(preply[t]) >= 1
         /\ preply[t][1].t = "exc"
         /\ preply[t][1].v # 0)
        => /\ result[t].reads = <<"exc">>
           /\ result[t].info = call[t].info
           /\ result[t].ret =
                (IF call[t].op \in {"getCameraInfo", "addListener",
                                    "removeListener"}
                 THEN 0 - EPROTO ELSE 0)

\* C1 witness: getCameraInfo returned -EPROTO on an IllegalArgument reply
\* that held a further field
C1_Witness ==
    \E t \in Threads :
        /\ pc[t] = "done"
        /\ call[t].op = "getCameraInfo"
        /\ Len(preply[t]) = 2
        /\ preply[t][1] = Field("exc", EX_ILLEGAL_ARGUMENT)
        /\ result[t].ret = 0 - EPROTO

(* ---------------- C2 ---------------- *)

\* C2: in every case of a recognized code the interface-token check comes
\* first: before it has run nothing was read from the call parcel and no
\* implementation method was called, the first field read is the token, and
\* after a mismatch the stub has returned having read only the token and
\* called no implementation method.
C2_TokenCheckFirst ==
    \A t \in Threads :
        (code[t] \in RecognizedCodes /\ pc[t] \notin {"idle", "sent"})
        => /\ (tokenOk[t] = "none" =>
                 dreads[t] = <<>> /\ sargs[t] = <<>> /\ implCalls[t] = <<>>)
           /\ (dreads[t] # <<>> => dreads[t][1] = "token")
           /\ (tokenOk[t] = "no" =>
                 /\ pc[t] # "stub"
                 /\ dreads[t] = <<"token">>
                 /\ sargs[t] = <<>>
                 /\ implCalls[t] = <<>>)

\* C2 witness: a connect call with a foreign token and four argument fields
\* was rejected
C2_Witness ==
    \E t \in Threads :
        /\ code[t] = CONNECT
        /\ tokenOk[t] = "no"
        /\ pc[t] = "returned"
        /\ Len(data[t]) = 5

(* ---------------- C3 ---------------- *)

\* C3: for a recognized code with a matching token, whatever the
\* implementation returned, once the stub is done with the call the reply
\* parcel is the exception code 0 followed by the complete result list of
\* the operation table.
C3_CompleteReply ==
    \A t \in Threads :
        (StubOver(t) /\ code[t] \in RecognizedCodes /\ tokenOk[t] = "yes")
        => /\ Len(reply[t]) >= 1
           /\ reply[t][1] = Field("exc", 0)
           /\ Types(Tail(reply[t])) = TableResultTypes(code[t])

(* ---------------- C4 ---------------- *)

C5_EndToEnd ==
    \A t \in Threads :
        (origin[t] = "proxy" /\ ip[t] > 0)
        => /\ pc[t] # "fault"
           /\ pc[t] = "done" =>
                /\ dreads[t] = Types(data[t])
                /\ implCalls[t] = <<[m |-> call[t].op, a |-> call[t].args]>>
                /\ result[t].reads = Types(reply[t])
                /\ result[t].ret = implRet[t].r
                /\ (call[t].op = "getCameraInfo" =>
                        result[t].info = implRet[t].info)

(* ---------------- C6 ---------------- *)

\* C6: when transact() reported DEAD_OBJECT, the proxy method has returned
\* its failure value: 0 for the count, NULL for the connects, -EPROTO for
\* getCameraInfo, addListener and removeListener.
C6_TransportFailureIsFailure ==
    \A t \in Threads :
        (pc[t] = "done" /\ tstatus[t] = "DEAD_OBJECT")
        => result[t].ret =
                (IF call[t].op \in {"getCameraInfo", "addListener",
                                    "removeListener"}
                 THEN 0 - EPROTO ELSE 0)

(* ---------------- C7 ---------------- *)

\* the stub returned NO_ERROR for a getCameraInfo call whose implementation
\* reported the non-zero status of an invalid camera id
InvalidIdReplied(t) ==
    /\ code[t] = GET_CAMERA_INFO
    /\ pc[t] \in {"returned", "decode", "done"}
    /\ status[t] = "NO_ERROR"
    /\ implRet[t].r # 0

\* C7 as stated: the reply for an invalid camera id carries the non-zero
\* status and the presence marker 0.
C7_InvalidIdPresenceZero ==
    \A t \in Threads :
        InvalidIdReplied(t)
        => /\ Len(reply[t]) >= 3
           /\ reply[t][2] = Field("i32", implRet[t].r)
           /\ reply[t][3] = Field("i32", 0)

\* C7 as amended: the reply for an invalid camera id carries the non-zero
\* status and the presence marker 1, followed by the facing and orientation
\* of the stub's record (zeroed before the call) as the implementation left
\* it; the caller's proxy returns the non-zero status and copies that facing
\* and orientation into the caller's CameraInfo.
C7_InvalidIdPresenceOne ==
    \A t \in Threads :
        InvalidIdReplied(t)
        => /\ reply[t] = <<Field("exc", 0), Field("i32", implRet[t].r),
                           Field("i32", 1),
                           Field("i32", implRet[t].info.facing),
                           Field("i32", implRet[t].info.orientation)>>
           /\ (pc[t] = "done" /\ origin[t] = "proxy") =>
                /\ result[t].ret = implRet[t].r
                /\ result[t].info = implRet[t].info

\* C7 witness: getCameraInfo returned a non-zero status to a caller whose
\* CameraInfo was overwritten with the zeroed record
C7_Witness ==
    \E t \in Threads :
        /\ InvalidIdReplied(t)
        /\ pc[t] = "done"
        /\ origin[t] = "proxy"
        /\ result[t].ret # 0
        /\ call[t].info # ZeroInfo
        /\ result[t].info = ZeroInfo

(* ---------------- C8 ---------------- *)

\* C8: for a code outside the 7 recognized ones the stub reads nothing,
\* calls no implementation method and writes no reply field; its only
\* statement is the BBinder::onTransact fallback, it never faults, and it
\* returns UNKNOWN_TRANSACTION, not NO_ERROR.
C8_UnknownCodeRejected ==
    \A t \in Threads :
        (code[t] \notin RecognizedCodes /\ pc[t] \in {"stub", "returned", "fault"})
        => /\ implCalls[t] = <<>>
           /\ dreads[t] = <<>>
           /\ reply[t] = <<>>
           /\ pc[t] # "fault"
           /\ (pc[t] = "stub" => Stmt(t) = "default" /\ ENABLED StubDefault(t))
           /\ (pc[t] = "returned" => status[t] = "UNKNOWN_TRANSACTION")

\* C8 witness: the stub returned UNKNOWN_TRANSACTION for code 8 sent with
\* the matching token
C8_Witness ==
    \E t \in Threads :
        /\ code[t] = REMOVE_LISTENER + 1
        /\ data[t][1].v = DESCRIPTOR
        /\ pc[t] = "returned"
        /\ status[t] = "UNKNOWN_TRANSACTION"

(* ---------------- C9 ---------------- *)

\* the stub ran CHECK_INTERFACE on a call parcel with a foreign token
TokenMismatch(t) ==
    /\ code[t] \in RecognizedCodes
    /\ tokenOk[t] # "none"
    /\ data[t][1].v # DESCRIPTOR

C10_CameraInfoRoundTrip ==
    \A t \in Threads :
        (/\ pc[t] = "done"
         /\ call[t].op = "getCameraInfo"
         /\ Len(preply[t]) >= 3
         /\ preply[t][1] = Field("exc", 0))
        => IF preply[t][3].v # 0
           THEN /\ Len(preply[t]) = 5
                /\ result[t].info = [facing |-> preply[t][4].v,
                                     orientation |-> preply[t][5].v]
                /\ result[t].info = implRet[t].info
                /\ Len(result[t].reads) = 5
           ELSE /\ result[t].reads = <<"exc", "i32", "i32">>
                /\ result[t].info = call[t].info

\* C10 witness: facing 1 and orientation 90 went through the stub's encoding
\* and the proxy's decoding into a caller's record that held other values
C10_Witness ==
    \E t \in Threads :
        /\ pc[t] = "done"
        /\ call[t].op = "getCameraInfo"
        /\ call[t].info = ZeroInfo
        /\ implRet[t].info = [facing |-> 1, orientation |-> 90]
        /\ preply[t] = reply[t]
        /\ Len(reply[t]) = 5
        /\ result[t].info = [facing |-> 1, orientation |-> 90]

\* C10 witness of the absent case lies in the same runs: a reply with
\* presence marker 0 and two trailing fields
PresenceZeroDecoded ==
    \E t \in Threads :
        /\ pc[t] = "done"
        /\ Len(preply[t]) = 5
        /\ preply[t][3] = Field("i32", 0)
        /\ result[t].reads = <<"exc", "i32", "i32">>

(* ---------------- C11 ---------------- *)

\* C11: getNumberOfCameras has returned 0 both on the reply "no exception,
\* count 0" and on a reply that starts with the exception code Security:
\* the two replies differ in their first field, the value handed to the
\* caller is the same.
C11_NoCamerasLikeRefused ==
    \A t \in Threads :
        (/\ pc[t] = "done"
         /\ call[t].op = "getNumberOfCameras"
         /\ \/ preply[t] = <<Field("exc", 0), Field("i32", 0)>>
            \/ (Len(preply[t]) >= 1 /\ preply[t][1] = Field("exc", EX_SECURITY)))
        => /\ result[t].ret = 0
           /\ result[t].info = call[t].info

\* C11 witness: getNumberOfCameras returned 0 on a Security reply
C11_Witness ==
    \E t \in Threads :
        /\ pc[t] = "done"
        /\ call[t].op = "getNumberOfCameras"
        /\ preply[t][1] = Field("exc", EX_SECURITY)
        /\ logged[t] = "Security"
        /\ result[t].ret = 0

\* the other reply of C11: the stub's reply for a service without cameras
NoCamerasReplied ==
    \E t \in Threads :
        /\ pc[t] = "done"
        /\ call[t].op = "getNumberOfCameras"
        /\ preply[t] = <<Field("exc", 0), Field("i32", 0)>>
        /\ implRet[t].r = 0
        /\ result[t].ret = 0

(* ---------------- C12 ---------------- *)

\* thread t is in onTransact for code c and its implementation call was
\* made and succeeded
ImplDone(t, c) ==
    /\ code[t] = c
    /\ pc[t] \in {"stub", "returned"}
    /\ implCalls[t] # <<>>
    /\ implRet[t].r = 0

AddRemoveOverlap ==
    \E t, u \in Threads :
        /\ ImplDone(t, ADD_LISTENER)
        /\ ImplDone(u, REMOVE_LISTENER)
        /\ sargs[t] = sargs[u]
        /\ registry = <<>>

(* ---------------- C13 ---------------- *)

\* the taxonomy member of an exception code, in the words readExceptionCode
\* logs: the five well-known codes, Unknown for every other non-zero code
TaxonomyName(c) ==
    CASE c = EX_SECURITY -> "Security"
      [] c = EX_BAD_PARCELABLE -> "BadParcelable"
      [] c = EX_ILLEGAL_ARGUMENT -> "IllegalArgument"
      [] c = EX_NULL_POINTER -> "NullPointer"
      [] c = EX_ILLEGAL_STATE -> "IllegalState"
      [] OTHER -> "Unknown"

\* C13: when a proxy method has returned on a reply that starts with an
\* exception code, readExceptionCode reported success (nothing logged, the
\* results read) exactly when the code is 0, and for every non-zero code it
\* logged the code's taxonomy member (-1 Security, -2 BadPayload,
\* -3 IllegalArgument, -4 NullReference, -5 IllegalState, Unknown for every
\* other value) and the method returned as failed, reading no more.
C13_CodeClassification ==
    \A t \in Threads :
        (pc[t] = "done" /\ Len(preply[t]) >= 1 /\ preply[t][1].t = "exc")
        => LET c == preply[t][1].v
           IN  IF c = 0
               THEN logged[t] = "none" /\ Len(result[t].reads) >= 2
               ELSE /\ logged[t] = TaxonomyName(c)
                    /\ result[t].reads = <<"exc">>

(* ---------------- C14 ---------------- *)

\* the opcode of each operation in the operation table
TableOpcode(op) ==
    CASE op = "getNumberOfCameras" -> 1
      [] op = "getCameraInfo" -> 2
      [] op = "connect" -> 3
      [] op = "connectPro" -> 4
      [] op = "connectDevice" -> 5
      [] op = "addListener" -> 6
      [] op = "removeListener" -> 7

\* what a call of op returns, from its own reply parcel p alone
ReturnFromReply(op, p) ==
    IF Len(p) >= 1 /\ p[1].t = "exc" /\ p[1].v # 0
    THEN (IF op \in {"getNumberOfCameras"} \cup ConnectOps THEN 0
          ELSE 0 - EPROTO)
    ELSE IF Len(p) < 2 THEN 0
    ELSE IF op \in ConnectOps THEN p[2].v \div 2
    ELSE p[2].v

\* a proxy call in flight carries its own opcode and a call parcel that
\* starts with the interface token, and what it returned is determined by
\* its own reply parcel
C14_CallShape ==
    \A t \in Threads :
        origin[t] = "proxy"
        => /\ code[t] = TableOpcode(call[t].op)
           /\ Len(data[t]) = 1 + Len(call[t].args)
           /\ data[t][1] = Field("token", DESCRIPTOR)
           /\ (pc[t] = "done" =>
                 result[t].ret = ReturnFromReply(call[t].op, preply[t]))

\* a call transacts once: it is handed to the transport only when it is
\* made, its opcode and call parcel never change while it is in flight, and
\* when it is over nothing of it is left in the proxy
C14_CallStep ==
    \A t \in Threads :
        /\ (pc'[t] = "sent" => pc[t] \in {"idle", "sent"})
        /\ (pc[t] # "idle" /\ pc'[t] # "idle" =>
                code'[t] = code[t] /\ data'[t] = data[t] /\ call'[t] = call[t])
        /\ (pc'[t] = "idle" =>
                /\ preply'[t] = <<>>
                /\ result'[t] = NoResult
                /\ tstatus'[t] = "none"
                /\ call'[t] = NoCall)

\* C14: every proxy method makes exactly one transport round trip per
\* invocation, with its own opcode and a call parcel whose first field is
\* the interface token; the proxy keeps nothing between calls, and the
\* value a call returns depends only on that call and its own reply parcel.
C14_OneRoundTripNoState ==
    [](C14_CallShape) /\ [][C14_CallStep]_vars

\* C14 witness: removeListener went out as code 7 behind the token and
\* returned the status of its reply, after the stub had rejected other calls
C14_Witness ==
    \E t \in Threads :
        /\ pc[t] = "done"
        /\ call[t].op = "removeListener"
        /\ code[t] = REMOVE_LISTENER
        /\ preply[t] = <<Field("exc", 0), Field("i32", -22)>>
        /\ result[t].ret = -22
        /\ rejects > 0

(* ---------------- C15 ---------------- *)

\* the reply parcel p starts with a non-zero exception code
NonNoneReply(p) == Len(p) >= 1 /\ p[1].t = "exc" /\ p[1].v # 0

\* the reply parcel p has no presence marker or the marker 0
PresenceZero(p) == Len(p) < 3 \/ p[3].v = 0

\* C15: when getCameraInfo has returned, the caller's CameraInfo is as it
\* was before the call if the reply's exception code is not 0 or its
\* presence marker is 0; otherwise, and only then, it holds the facing and
\* orientation fields of the reply.
C15_CameraInfoFrame ==
    \A t \in Threads :
        (pc[t] = "done" /\ call[t].op = "getCameraInfo")
        => IF NonNoneReply(preply[t]) \/ PresenceZero(preply[t])
           THEN result[t].info = call[t].info
           ELSE result[t].info = [facing |-> preply[t][4].v,
                                  orientation |-> preply[t][5].v]

\* C15 witness: a reply with presence marker 0 and two more fields left a
\* caller's record that held facing 0, orientation 0 as it was
C15_Witness ==
    \E t \in Threads :
        /\ pc[t] = "done"
        /\ call[t].op = "getCameraInfo"
        /\ Len(preply[t]) = 5
        /\ preply[t][1] = Field("exc", 0)
        /\ preply[t][3] = Field("i32", 0)
        /\ preply[t][4] = Field("i32", 1)
        /\ call[t].info = ZeroInfo
        /\ result[t].info = ZeroInfo

(* ---------------- C16 ---------------- *)

\* the call of thread t is well formed: a recognized code behind the
\* matching interface token
WellFormed(t) ==
    /\ pc[t] \notin {"idle"}
    /\ code[t] \in RecognizedCodes
    /\ data[t][1] = Field("token", DESCRIPTOR)

\* the reply of a served call, from its code and what the implementation
\* returned
ServedReply(c, ret) ==
    <<Field("exc", 0)>> \o
    (CASE c = GET_CAMERA_INFO ->
            <<Field("i32", ret.r), Field("i32", 1),
              Field("i32", ret.info.facing),
              Field("i32", ret.info.orientation)>>
       [] c \in ConnectCodes -> <<Field("binder", 2 * ret.r)>>
       [] OTHER -> <<Field("i32", ret.r)>>)

\* some statement of onTransact can run for thread t
StubCanStep(t) ==
    \/ ENABLED StubCheckInterface(t)
    \/ ENABLED StubReadArgs(t)
    \/ ENABLED StubWriteNoException(t)
    \/ ENABLED StubCallImpl(t)
    \/ ENABLED StubWriteResult(t)
    \/ ENABLED StubDefault(t)

\* C16: however many calls the stub has rejected before (foreign token or
\* unrecognized code), a well-formed call passes the token check, is served
\* statement by statement, and returns NO_ERROR with the reply that its code
\* and the implementation's result determine; a rejected call never faults
\* the stub, and a call in the stub can always take its next step.
C16_RejectsLeaveNoTrace ==
    \A t \in Threads :
        /\ (pc[t] = "stub" => StubCanStep(t))
        /\ (WellFormed(t) =>
              /\ tokenOk[t] \in {"none", "yes"}
              /\ (pc[t] = "returned" =>
                    /\ status[t] = "NO_ERROR"
                    /\ reply[t] = ServedReply(code[t], implRet[t])))
        /\ (pc[t] \notin {"idle"} /\ ~WellFormed(t) =>
              /\ pc[t] # "fault"
              /\ implCalls[t] = <<>>
              /\ reply[t] = <<>>)

\* C16 witness: after the stub rejected MaxRejects calls or more, a
\* getCameraInfo call returned NO_ERROR with its five-field reply
C16_Witness ==
    \E t \in Threads :
        /\ rejects = MaxRejects
        /\ WellFormed(t)
        /\ code[t] = GET_CAMERA_INFO
        /\ pc[t] = "returned"
        /\ status[t] = "NO_ERROR"
        /\ Len(reply[t]) = 5

(* ---------------- C17 ---------------- *)

\* the argument values the call parcel d carries after its token
OwnArgs(d) ==
    [i \in 1..(Len(d) - 1) |->
        IF d[i + 1].t = "binder" THEN d[i + 1].v \div 2 ELSE d[i + 1].v]

\* C17: with onTransact running on the worker threads at once, under every
\* interleaving each call keeps to itself: the arguments it decoded are
\* those of its own call parcel, its one implementation call is the method
\* of its own code with those arguments, and what it has written to its
\* reply parcel is nothing, the exception code 0, or, once it returned
\* NO_ERROR, the complete reply that its own code and its own
\* implementation result determine - as for a call dispatched alone.
C17_CallsKeepToThemselves ==
    \A t \in Threads :
        (pc[t] \in {"stub", "returned", "fault"})
        => /\ (sargs[t] # <<>> => sargs[t] = OwnArgs(data[t]))
           /\ (implCalls[t] # <<>> =>
                 /\ code[t] \in RecognizedCodes
                 /\ Len(implCalls[t]) = 1
                 /\ implCalls[t][1].a = (IF Len(dreads[t]) > 1
                                         THEN OwnArgs(data[t]) ELSE <<>>)
                 /\ TableOpcode(implCalls[t][1].m) = code[t])
           /\ (pc[t] = "returned" /\ status[t] = "NO_ERROR" =>
                 reply[t] = ServedReply(code[t], implRet[t]))
           /\ (pc[t] # "returned" \/ status[t] # "NO_ERROR" =>
                 reply[t] \in {<<>>, <<Field("exc", 0)>>})

\* C17 witness: a getCameraInfo call returned its reply for camera 1 while
\* an addListener call of another thread, already past its implementation
\* call, was still inside onTransact
C17_Witness ==
    \E t, u \in Threads :
        /\ t # u
        /\ code[t] = GET_CAMERA_INFO
        /\ pc[t] = "returned"
        /\ status[t] = "NO_ERROR"
        /\ sargs[t] = <<1>>
        /\ reply[t] = ServedReply(GET_CAMERA_INFO, implRet[t])
        /\ code[u] = ADD_LISTENER
        /\ pc[u] = "stub"
        /\ implCalls[u] # <<>>
        /\ sargs[u] = <<2>>

(* ---------------- C18 ---------------- *)

\* C18: for the three connect codes, once the implementation has returned a
\* NULL camera, onTransact does not fault; it returns NO_ERROR with the
\* reply <<exception code 0, NULL binder>>, and the proxy method that made
\* the call returns NULL.
C18_NullCameraReplied ==
    \A t \in Threads :
        (code[t] \in ConnectCodes /\ implCalls[t] # <<>> /\ implRet[t].r = 0)
        => /\ pc[t] # "fault"
           /\ (pc[t] \in {"returned", "done"} =>
                 /\ status[t] = "NO_ERROR"
                 /\ reply[t] = <<Field("exc", 0), Field("binder", 0)>>)
           /\ (pc[t] = "done" /\ origin[t] = "proxy" => result[t].ret = 0)

====
